---- MODULE Spec2Model ----
(***************************************************************************)
(* Model of app.py: a Streamlit page with a radio (expert A/B), a text     *)
(* area and a submit button, and run_expert_llm, which resolves a system   *)
(* message, builds a two-message prompt, looks up the OpenAI API key and   *)
(* calls the chat model through a LangChain chain.                         *)
(*                                                                         *)
(* A Python str is a sequence of one-character strings.  A fixed text of   *)
(* the program (an instruction, the template preamble, the diagnostic) is  *)
(* a sequence of one token that stands for the text.  Python's None is the *)
(* one-token sequence None, which is no str of the model.                  *)
(***************************************************************************)
EXTENDS Naturals, Sequences, FiniteSets

\* ------------------------------------------------------------- bounds
\* Longest text typed in the form or returned by the collaborator.
MaxLen == 3

\* ------------------------------------------------------------ strings
Whitespace == {" "}
Chars == {" ", "a"}

None == <<"None">>

Strings == UNION {[1..n -> Chars] : n \in 0..MaxLen}

\* a bug: only None is taken as missing, the empty string passes
truthy_not_none(v) == v # None

\* `not x` of Python is ~Truthy(x) for x a str or None.
Truthy(v) == v # None /\ v # <<>>

RECURSIVE lstrip(_)
lstrip(s) ==
    IF s # <<>> /\ Head(s) \in Whitespace THEN lstrip(Tail(s)) ELSE s

RECURSIVE rstrip(_)
rstrip(s) ==
    IF s # <<>> /\ s[Len(s)] \in Whitespace
    THEN rstrip(SubSeq(s, 1, Len(s) - 1))
    ELSE s

\* a bug: only the leading whitespace is removed
strip_leading_only(s) == lstrip(s)

\* a bug: only the trailing whitespace is removed
strip_trailing_only(s) == rstrip(s)

\* str.strip()
strip(s) == rstrip(lstrip(s))

\* a bug: a lookup without the default yields None for a missing key
dict_get_no_default(d, k, default) == IF k \in DOMAIN d THEN d[k] ELSE None

\* dict.get(k, default), st.secrets.get(k, default)
dict_get(d, k, default) == IF k \in DOMAIN d THEN d[k] ELSE default

\* ------------------------------------------------------- fixed texts
RealEstateAdvisorInstruction == <<"[system: experienced real-estate investment advisor ...]">>
NutritionExpertInstruction == <<"[system: evidence-based nutrition expert ...]">>
DefaultAssistantInstruction == <<"[system: capable assistant, answer politely and concretely]">>
HumanPreamble == <<"[Based on the user input below, give the best advice as an expert.\n\nUser input: ]">>
MissingKeyDiagnostic == <<"[warning: the OpenAI API key is not set; local: set OPENAI_API_KEY; Cloud: add it to Secrets]">>

expert_system_messages ==
    [A |-> RealEstateAdvisorInstruction, B |-> NutritionExpertInstruction]

\* expert_system_messages.get(expert_choice, default)
system_text_of(expert_choice) ==
    dict_get(expert_system_messages, expert_choice, DefaultAssistantInstruction)

\* The human message's template: a literal followed by the one placeholder.
HumanTemplate ==
    << [kind |-> "literal", text |-> HumanPreamble],
       [kind |-> "placeholder", text |-> "user_input"] >>

\* A template with no placeholder: the system text is passed as a template too.
LiteralTemplate(text) == << [kind |-> "literal", text |-> text] >>

\* a bug: the placeholder is sent as written, the value is not substituted
format_no_substitution(template, values) ==
    IF template = <<>> THEN <<>>
    ELSE template[1].text
         \o (IF Len(template) > 1 THEN <<"{", template[2].text, "}">> ELSE <<>>)

\* Formatting a template: literals are copied, a placeholder is replaced by
\* the value bound to its name.
RECURSIVE format(_, _)
format(template, values) ==
    IF template = <<>> THEN <<>>
    ELSE LET seg == Head(template)
         IN  (IF seg.kind = "literal" THEN seg.text ELSE values[seg.text])
             \o format(Tail(template), values)

\* ---------------------------------------------------------------- state
VARIABLES
    secrets,        \* st.secrets: a mapping from names to values
    environ,        \* os.environ after load_dotenv(): a mapping from names to values
    expert_choice,  \* the radio's value
    user_input,     \* the text area's value
    button,         \* whether the current script run was started by the submit button
    pc,             \* "idle", or "invoking" while chain.invoke waits for the collaborator
    call,           \* the arguments and system_text of run_expert_llm in the current run ({} if not called)
    request,        \* the request sent to the collaborator in the current run ({} if none)
    invocations,    \* remote calls made in the current run
    response,       \* what the collaborator answered in the current run (None if nothing yet)
    result,         \* the value run_expert_llm returned in the current run (None if none)
    page            \* what the current script run rendered below the button

vars == << secrets, environ, expert_choice, user_input, button, pc, call,
           request, invocations, response, result, page >>

KeyName == "OPENAI_API_KEY"
SecretKey == <<"s">>
EnvKey == <<"e">>
Raised == <<"Raised">>

RadioOptions == {"A", "B"}
\* Values a programmatic caller may pass as expert_choice.
Selectors == {"A", "B", "Z", ""}

\* A store without the key, with an empty value, with a key.
StoresOf(key) ==
    {[k \in D |-> v] : D \in SUBSET {KeyName}, v \in {<<>>, key}}

BlankPage ==
    [warning |-> FALSE, spinner |-> FALSE, subheader |-> FALSE,
     written |-> None, exception |-> FALSE]

Init ==
    /\ secrets \in StoresOf(SecretKey)
    /\ environ \in StoresOf(EnvKey)
    /\ expert_choice = "A"
    /\ user_input = <<>>
    /\ button = FALSE
    /\ pc = "idle"
    /\ call = {}
    /\ request = {}
    /\ invocations = 0
    /\ response = None
    /\ result = None
    /\ page = BlankPage

\* ------------------------------------------------------- run_expert_llm
\* os.getenv(name)
os_getenv(name) == dict_get(environ, name, None)

\* st.secrets.get("OPENAI_API_KEY", os.getenv("OPENAI_API_KEY"))
openai_api_key == dict_get(secrets, KeyName, os_getenv(KeyName))

\* a bug: the last result is carried into the next prompt (a conversation history)
prompt_messages_with_history(system_text, input_text) ==
    << [role |-> "system", content |-> system_text],
       [role |-> "human", content |-> HumanPreamble \o input_text] >>
    \o (IF result # None THEN << [role |-> "ai", content |-> result] >> ELSE <<>>)

\* ChatPromptTemplate.from_messages([...]) formatted with {"user_input": input_text}
prompt_messages(system_text, input_text) ==
    LET values == [user_input |-> input_text]
    IN  << [role |-> "system",
            content |-> format(LiteralTemplate(system_text), values)],
           [role |-> "human", content |-> format(HumanTemplate, values)] >>

\* run_expert_llm up to its return without a key, or up to chain.invoke.
run_expert_llm(input_text, choice) ==
    LET system_text == system_text_of(choice)
        messages == prompt_messages(system_text, input_text)
        key == openai_api_key
    IN  /\ call' = {[input_text |-> input_text, expert_choice |-> choice,
                     system_text |-> system_text]}
        /\ response' = None
        /\ IF ~Truthy(key)
           THEN /\ result' = MissingKeyDiagnostic
                /\ request' = {}
                /\ invocations' = 0
                /\ pc' = "idle"
           ELSE /\ result' = None
                /\ request' = {[model |-> "gpt-4o-mini", temperature |-> "0.4",
                                api_key |-> key, messages |-> messages]}
                /\ invocations' = 1
                /\ pc' = "invoking"

\* ---------------------------------------------------------- the page
\* a bug: only the empty text is refused, whitespace goes through
input_is_empty_no_strip(text) == text = <<>>

\* not user_input.strip()
input_is_empty(text) == ~Truthy(strip(text))

\* A script run with the button not pressed renders nothing below it.
Rerun ==
    /\ button' = FALSE
    /\ pc' = "idle"
    /\ call' = {}
    /\ request' = {}
    /\ invocations' = 0
    /\ response' = None
    /\ result' = None
    /\ page' = BlankPage

\* The user picks the other radio option: the script reruns.
SelectExpert(c) ==
    /\ pc = "idle"
    /\ c # expert_choice
    /\ expert_choice' = c
    /\ Rerun
    /\ UNCHANGED << secrets, environ, user_input >>

\* The user changes the text area: the script reruns.
EditText(v) ==
    /\ pc = "idle"
    /\ v # user_input
    /\ user_input' = v
    /\ Rerun
    /\ UNCHANGED << secrets, environ, expert_choice >>

\* The user presses the submit button: the script reruns with the button set.
Submit ==
    /\ pc = "idle"
    /\ button' = TRUE
    /\ IF input_is_empty(user_input)
       THEN /\ page' = [BlankPage EXCEPT !.warning = TRUE]
            /\ call' = {}
            /\ request' = {}
            /\ invocations' = 0
            /\ response' = None
            /\ result' = None
            /\ pc' = "idle"
       ELSE /\ run_expert_llm(strip(user_input), expert_choice)
            /\ page' = IF pc' = "idle"
                       THEN [BlankPage EXCEPT !.subheader = TRUE, !.written = result']
                       ELSE [BlankPage EXCEPT !.spinner = TRUE]
    /\ UNCHANGED << secrets, environ, expert_choice, user_input >>

\* a bug: the collaborator's error is swallowed and an empty answer returned
CollaboratorRaisesSwallowed ==
    /\ pc = "invoking"
    /\ response' = Raised
    /\ result' = <<>>
    /\ pc' = "idle"
    /\ page' = IF button
               THEN [BlankPage EXCEPT !.subheader = TRUE, !.written = <<>>]
               ELSE page
    /\ UNCHANGED << secrets, environ, expert_choice, user_input, button, call,
                    request, invocations >>

\* a bug: the remote call is tried again after an error
CollaboratorRaisesRetried ==
    /\ pc = "invoking"
    /\ invocations' = invocations + 1
    /\ UNCHANGED << secrets, environ, expert_choice, user_input, button, pc, call,
                    request, response, result, page >>

\* chain.invoke returns r: run_expert_llm returns r.strip(); a page that
\* called it shows the subheader and the text.
CollaboratorReturns(r) ==
    /\ pc = "invoking"
    /\ response' = r
    /\ result' = strip(r)
    /\ pc' = "idle"
    /\ page' = IF button
               THEN [BlankPage EXCEPT !.subheader = TRUE, !.written = result']
               ELSE page
    /\ UNCHANGED << secrets, environ, expert_choice, user_input, button, call,
                    request, invocations >>

\* chain.invoke raises: nothing catches it, run_expert_llm returns nothing
\* and the script run ends with the exception shown.
CollaboratorRaises ==
    /\ pc = "invoking"
    /\ response' = Raised
    /\ result' = None
    /\ pc' = "idle"
    /\ page' = IF button THEN [BlankPage EXCEPT !.exception = TRUE] ELSE page
    /\ UNCHANGED << secrets, environ, expert_choice, user_input, button, call,
                    request, invocations >>

Next ==
    \/ \E c \in RadioOptions : SelectExpert(c)
    \/ \E v \in Strings : EditText(v)
    \/ Submit
    \/ \E r \in Strings : CollaboratorReturns(r)
    \/ CollaboratorRaises

Spec == Init /\ [][Next]_vars

\* ------------------------------------- run_expert_llm called directly
\* A caller other than the page calls run_expert_llm(text, sel).
Invoke(text, sel) ==
    /\ pc = "idle"
    /\ run_expert_llm(text, sel)
    /\ UNCHANGED << secrets, environ, expert_choice, user_input, button, page >>

NextFn ==
    \/ \E text \in Strings, sel \in Selectors : Invoke(text, sel)
    \/ \E r \in Strings : CollaboratorReturns(r)
    \/ CollaboratorRaises

SpecFn == Init /\ [][NextFn]_vars

\* =============================================================== claims
\* What the claims speak of, stated without the operators of the model.

\* s is empty or whitespace only.
IsBlank(s) == \A k \in 1..Len(s) : s[k] \in Whitespace

\* s neither starts nor ends with whitespace.
NoEdgeWhitespace(s) ==
    s = <<>> \/ (s[1] \notin Whitespace /\ s[Len(s)] \notin Whitespace)

\* t is s without its leading and trailing whitespace.
IsStripOf(t, s) ==
    /\ NoEdgeWhitespace(t)
    /\ \E i \in 0..Len(s) :
          /\ i + Len(t) <= Len(s)
          /\ \A k \in 1..i : s[k] \in Whitespace
          /\ \A k \in 1..Len(t) : t[k] = s[i + k]
          /\ \A k \in (i + Len(t) + 1)..Len(s) : s[k] \in Whitespace

\* The instruction the selector stands for.
ExpectedInstruction(sel) ==
    CASE sel = "A" -> RealEstateAdvisorInstruction
      [] sel = "B" -> NutritionExpertInstruction
      [] OTHER -> DefaultAssistantInstruction

\* A store yields a credential when it holds a non-empty value under the name.
Yields(store) == KeyName \in DOMAIN store /\ store[KeyName] # <<>>

\* content is the template preamble followed by a text t with P(t).
HumanContentOf(content, t) ==
    /\ Len(content) = Len(HumanPreamble) + Len(t)
    /\ SubSeq(content, 1, Len(HumanPreamble)) = HumanPreamble
    /\ SubSeq(content, Len(HumanPreamble) + 1, Len(content)) = t

\* C1: the resolver is total: selector "A" gives the real-estate advisor
\* instruction, "B" the nutrition expert instruction, every other selector the
\* generic default instruction, and the instruction is never empty or absent.
C1_ResolverTotal ==
    \A c \in call :
        /\ c.system_text = ExpectedInstruction(c.expert_choice)
        /\ c.system_text # None
        /\ c.system_text # <<>>

C1_Witness ==
    \E c \in call :
        c.expert_choice = "Z" /\ c.system_text = DefaultAssistantInstruction

\* C2: when neither the secrets store nor the environment yields a credential,
\* run_expert_llm returns the diagnostic string as a normal return value and
\* the collaborator is invoked zero times during that call.
C2_NoCredentialDiagnostic ==
    (call # {} /\ ~Yields(secrets) /\ ~Yields(environ)) =>
        /\ result = MissingKeyDiagnostic
        /\ pc = "idle"
        /\ invocations = 0
        /\ request = {}
        /\ response = None

C2_Witness ==
    /\ call # {}
    /\ KeyName \in DOMAIN secrets /\ secrets[KeyName] = <<>>
    /\ KeyName \notin DOMAIN environ
    /\ result = MissingKeyDiagnostic
    /\ invocations = 0

\* C3: the credential used is the secrets store's value if that store yields
\* a value, else the environment's value, and the diagnostic is returned only
\* when neither source yields a value.
C3_SecretsThenEnvironment ==
    call # {} =>
        IF Yields(secrets) \/ Yields(environ)
        THEN /\ result # MissingKeyDiagnostic
             /\ \E q \in request :
                    q.api_key = IF Yields(secrets) THEN secrets[KeyName]
                                ELSE environ[KeyName]
        ELSE result = MissingKeyDiagnostic /\ request = {}

\* C4: a submit whose text is empty or whitespace only shows the warning and
\* never calls run_expert_llm (no remote call, no answer region); a submit
\* whose text has a non-whitespace character calls run_expert_llm.
C4_BlankInputShortCircuits ==
    button =>
        IF IsBlank(user_input)
        THEN /\ page.warning
             /\ call = {}
             /\ request = {}
             /\ invocations = 0
             /\ ~page.subheader
             /\ page.written = None
        ELSE /\ call # {}
             /\ ~page.warning

C4_Witness ==
    /\ button
    /\ user_input = <<" ", " ">>
    /\ page.warning
    /\ call = {}

\* C5 as claimed: the human message sent is the template preamble followed by
\* the text entered in the form, verbatim and unmodified, and it is the second
\* message, after the system message carrying the resolved instruction.
C5_FormTextVerbatim ==
    \A q \in request :
        /\ Len(q.messages) = 2
        /\ q.messages[1] =
              [role |-> "system", content |-> ExpectedInstruction(expert_choice)]
        /\ q.messages[2].role = "human"
        /\ HumanContentOf(q.messages[2].content, user_input)

\* C5 as amended: the human message sent is the template preamble followed by
\* the form's text with its leading and trailing whitespace removed and
\* otherwise unmodified, and it is the second message, after the system
\* message carrying the resolved instruction.
C5_TrimmedTextVerbatim ==
    \A q \in request :
        /\ Len(q.messages) = 2
        /\ q.messages[1] =
              [role |-> "system", content |-> ExpectedInstruction(expert_choice)]
        /\ q.messages[2].role = "human"
        /\ \E t \in Strings :
              /\ IsStripOf(t, user_input)
              /\ HumanContentOf(q.messages[2].content, t)

C5_Witness ==
    /\ user_input = <<" ", "a", " ">>
    /\ \E q \in request : q.messages[2].content = HumanPreamble \o <<"a">>

\* C6: with a credential and a collaborator response r, run_expert_llm
\* returns r without its leading and trailing whitespace; the result has no
\* leading or trailing whitespace and trimming it again changes nothing.
C6_ResultIsTrimmedResponse ==
    (response # None /\ response # Raised) =>
        /\ result # None
        /\ IsStripOf(result, response)
        /\ NoEdgeWhitespace(result)
        /\ \A t \in Strings : IsStripOf(t, result) => t = result

C6_Witness ==
    /\ response = <<" ", "a", " ">>
    /\ result = <<"a">>

\* C7: an error raised by the collaborator propagates out of run_expert_llm:
\* the call returns no value (no empty string, no diagnostic) and no answer
\* is displayed for that submission.
C7_CollaboratorErrorPropagates ==
    response = Raised =>
        /\ result = None
        /\ pc = "idle"
        /\ page.exception
        /\ ~page.subheader
        /\ page.written = None

C7_Witness ==
    /\ response = Raised
    /\ button
    /\ page.exception

\* C8: a submit causes at most one remote call and ends in exactly one of a
\* warning, one displayed result text, or a propagated error; the answer
\* region is written only after run_expert_llm has returned.
C8_OneCallOneOutcome ==
    /\ invocations <= 1
    /\ (invocations = 1) = (request # {})
    /\ pc = "invoking" => (page.written = None /\ ~page.subheader /\ result = None)
    /\ page.written # None => (page.subheader /\ page.written = result)
    /\ (button /\ pc = "idle") =>
          Cardinality({o \in {"warning", "result", "error"} :
              \/ o = "warning" /\ page.warning
              \/ o = "result" /\ page.written # None
              \/ o = "error" /\ page.exception}) = 1

C8_Witness ==
    /\ button
    /\ pc = "idle"
    /\ invocations = 1
    /\ page.written = <<"a">>

\* C9: a submission's prompt and outcome depend only on its selector, its
\* input text, the credential and the collaborator's response: nothing of an
\* earlier submission is in the request or on the page.
C9_SubmissionsIndependent ==
    LET key == IF KeyName \in DOMAIN secrets THEN secrets[KeyName]
               ELSE IF KeyName \in DOMAIN environ THEN environ[KeyName]
               ELSE None
        outcome(p) == << p.warning, p.subheader, p.exception, p.spinner >>
    IN  /\ \A q \in request :
              /\ q.api_key = key
              /\ q.model = "gpt-4o-mini"
              /\ q.temperature = "0.4"
              /\ \E t \in Strings :
                    /\ IsStripOf(t, user_input)
                    /\ q.messages =
                          << [role |-> "system",
                              content |-> ExpectedInstruction(expert_choice)],
                             [role |-> "human", content |-> HumanPreamble \o t] >>
        /\ button =>
              IF IsBlank(user_input)
              THEN outcome(page) = << TRUE, FALSE, FALSE, FALSE >> /\ page.written = None
              ELSE IF key = None \/ key = <<>>
              THEN /\ outcome(page) = << FALSE, TRUE, FALSE, FALSE >>
                   /\ page.written = MissingKeyDiagnostic
              ELSE IF response = None
              THEN outcome(page) = << FALSE, FALSE, FALSE, TRUE >> /\ page.written = None
              ELSE IF response = Raised
              THEN outcome(page) = << FALSE, FALSE, TRUE, FALSE >> /\ page.written = None
              ELSE /\ outcome(page) = << FALSE, TRUE, FALSE, FALSE >>
                   /\ IsStripOf(page.written, response)

C9_Witness ==
    /\ button
    /\ expert_choice = "B"
    /\ user_input = <<"a", " ", "a">>
    /\ response = <<"a", " ">>
    /\ page.written = <<"a">>
    /\ \E q \in request : Len(q.messages) = 2

\* C10: whenever the page calls run_expert_llm, the text it passes is non-empty
\* and has no leading or trailing whitespace (the trimmed form text), and the
\* selector is "A" or "B", so the default instruction is never used.
C10_InvokerArgumentsFromPage ==
    \A c \in call :
        /\ c.input_text # <<>>
        /\ NoEdgeWhitespace(c.input_text)
        /\ IsStripOf(c.input_text, user_input)
        /\ c.expert_choice \in {"A", "B"}
        /\ c.system_text # DefaultAssistantInstruction

C10_Witness ==
    \E c \in call :
        /\ user_input = <<" ", "a", " ">>
        /\ c.input_text = <<"a">>
        /\ c.expert_choice = "B"

====
